---- MODULE Spec2Model ----
(***************************************************************************)
(* State-machine model of the PDFViewer component.  Two variants of the   *)
(* component are in the repository:                                        *)
(*   "direct": src/unnamed/part_000 -- an effect fetches the url itself    *)
(*             and hands the bytes to the renderer ({ data: pdfData });    *)
(*   "proxy" : src/src/components/PDFViewer.tsx -- the renderer is given   *)
(*             the url, and only the download goes through                 *)
(*             fetchPDFThroughProxy.  loadPDF (lines 33-50) is defined     *)
(*             there but never called, so it is no action of the model.    *)
(* The variant is chosen in Init and never changes.                        *)
(*                                                                         *)
(* The browser event loop runs one handler or one promise continuation at  *)
(* a time, so each is one atomic action.                                   *)
(***************************************************************************)
EXTENDS Integers, Sequences, FiniteSets, TLC

\* ---- bounds of the model ------------------------------------------------
MaxPages == 2        \* largest page count the renderer reports
MaxTriggers == 3     \* mount + url changes + proxy download clicks

\* ---- program constants --------------------------------------------------
ZoomInit == 100
ZoomStep == 25
ZoomMin == 50
ZoomMax == 200
NoPages == 0         \* numPages = null (null and 0 are both falsy in changePage)

Variants == {"direct", "proxy"}
Urls == {"urlA", "urlB"}
DefaultUrl == "urlA"
FetchErrors == {"HTTP error", "Failed to fetch"}
LoadErrorMessage == "load error"
DestructiveTitles == {"Error Fetching PDF", "Error Loading PDF", "Download Failed"}

VARIABLES
    variant,            \* which of the two components is mounted
    url,                \* the url prop
    isLoading,          \* useState(true)
    zoomLevel,          \* useState(100)
    isFullscreen,       \* useState(false)
    numPages,           \* useState(null): NoPages or the page count
    pageNumber,         \* useState(1)
    pdfData,            \* useState(null): "null" or the url whose bytes it holds
    error,              \* useState(null): "null" or the message
    fullscreenElement,  \* document.fullscreenElement is set
    requests,           \* every fetch the component started, in start order
    triggers,           \* mount, url changes and proxy download clicks so far
    docState,           \* the renderer's <Document>: unmounted/loading/loaded/failed
    toasts              \* titles passed to toast() by the latest handler run

vars == <<variant, url, isLoading, zoomLevel, isFullscreen, numPages, pageNumber,
          pdfData, error, fullscreenElement, requests, triggers, docState, toasts>>

Min(a, b) == IF a < b THEN a ELSE b
Max(a, b) == IF a > b THEN a ELSE b

\* ---- the renderer's <Document> -----------------------------------------
\* direct: mounted only under {pdfData && !error}; proxy: always mounted.
Mounted(pd, err) ==
    IF variant = "direct" THEN pd # "null" /\ err = "null" ELSE TRUE

\* The <Document> after a render in which pdfData and error became pd and err;
\* newFile says the file prop changed.  Unmounting drops a running load, a
\* mount or a new file starts one.
DocAfter(pd, err, newFile) ==
    IF ~Mounted(pd, err) THEN "unmounted"
    ELSE IF docState = "unmounted" \/ newFile THEN "loading"
    ELSE docState

\* A <Page> is on screen once the mounted <Document> has loaded.
PageDisplayed == docState = "loaded"

\* ---- Init ---------------------------------------------------------------
\* The state after the first render and its effects: the direct variant has
\* already started fetchPdf for the url.
Init ==
    /\ variant \in Variants
    /\ url = DefaultUrl
    /\ isLoading = TRUE
    /\ zoomLevel = ZoomInit
    /\ isFullscreen = FALSE
    /\ numPages = NoPages
    /\ pageNumber = 1
    /\ pdfData = "null"
    /\ error = "null"
    /\ fullscreenElement = FALSE
    /\ requests = IF variant = "direct"
                  THEN <<[kind |-> "load", url |-> DefaultUrl, status |-> "inflight"]>>
                  ELSE <<>>
    /\ triggers = 1
    /\ docState = IF variant = "direct" THEN "unmounted" ELSE "loading"
    /\ toasts = <<>>

\* ---- fetchPdf (direct variant) ------------------------------------------
\* The synchronous head of fetchPdf: setIsLoading(true); setError(null); fetch(url).
FetchStart(u) ==
    /\ isLoading' = TRUE
    /\ error' = "null"
    /\ requests' = Append(requests, [kind |-> "load", url |-> u, status |-> "inflight"])
    /\ docState' = DocAfter(pdfData, "null", FALSE)
    /\ toasts' = <<>>
    /\ UNCHANGED <<zoomLevel, isFullscreen, numPages, pageNumber, pdfData, fullscreenElement>>

\* The url prop changes.  direct: the effect runs fetchPdf again; the earlier
\* fetch is not aborted.  proxy: only the <Document>'s file changes.
UrlChange(u) ==
    /\ u # url
    /\ triggers < MaxTriggers
    /\ url' = u
    /\ triggers' = triggers + 1
    /\ UNCHANGED variant
    /\ IF variant = "direct"
       THEN FetchStart(u)
       ELSE /\ docState' = DocAfter(pdfData, error, TRUE)
            /\ toasts' = <<>>
            /\ UNCHANGED <<isLoading, zoomLevel, isFullscreen, numPages, pageNumber,
                           pdfData, error, fullscreenElement, requests>>

\* What a successful response stores: the bytes it carried.
ResolvedData(i) == requests[i].url

\* Mutant of FetchResolve: a response whose request is not the latest is dropped.
FetchResolveDropsStale(i) ==
    /\ variant = "direct"
    /\ i \in DOMAIN requests
    /\ requests[i].kind = "load"
    /\ requests[i].status = "inflight"
    /\ requests' = [requests EXCEPT ![i].status = "ok"]
    /\ pdfData' = IF i = Len(requests) THEN ResolvedData(i) ELSE pdfData
    /\ isLoading' = FALSE
    /\ docState' = DocAfter(pdfData', error, i = Len(requests))
    /\ toasts' = <<>>
    /\ UNCHANGED <<variant, url, zoomLevel, isFullscreen, numPages, pageNumber, error,
                   fullscreenElement, triggers>>

\* fetchPdf after its awaits, response ok: setPdfData(bytes); finally setIsLoading(false).
FetchResolve(i) ==
    /\ variant = "direct"
    /\ i \in DOMAIN requests
    /\ requests[i].kind = "load"
    /\ requests[i].status = "inflight"
    /\ requests' = [requests EXCEPT ![i].status = "ok"]
    /\ pdfData' = ResolvedData(i)
    /\ isLoading' = FALSE
    /\ docState' = DocAfter(pdfData', error, TRUE)
    /\ toasts' = <<>>
    /\ UNCHANGED <<variant, url, zoomLevel, isFullscreen, numPages, pageNumber, error,
                   fullscreenElement, triggers>>

\* Mutant of FetchReject: the catch sets the error but issues no toast.
FetchRejectNoToast(i) ==
    /\ variant = "direct"
    /\ i \in DOMAIN requests
    /\ requests[i].kind = "load"
    /\ requests[i].status = "inflight"
    /\ \E msg \in FetchErrors :
          /\ error' = msg
          /\ docState' = DocAfter(pdfData, msg, FALSE)
    /\ requests' = [requests EXCEPT ![i].status = "failed"]
    /\ isLoading' = FALSE
    /\ toasts' = <<>>
    /\ UNCHANGED <<variant, url, zoomLevel, isFullscreen, numPages, pageNumber, pdfData,
                   fullscreenElement, triggers>>

\* Mutant of FetchReject: the catch starts the fetch again.
FetchRejectRetries(i) ==
    /\ variant = "direct"
    /\ i \in DOMAIN requests
    /\ requests[i].kind = "load"
    /\ requests[i].status = "inflight"
    /\ \E msg \in FetchErrors :
          /\ error' = msg
          /\ docState' = DocAfter(pdfData, msg, FALSE)
    /\ requests' = Append([requests EXCEPT ![i].status = "failed"],
                          [kind |-> "load", url |-> requests[i].url, status |-> "inflight"])
    /\ isLoading' = FALSE
    /\ toasts' = <<"Error Fetching PDF">>
    /\ UNCHANGED <<variant, url, zoomLevel, isFullscreen, numPages, pageNumber, pdfData,
                   fullscreenElement, triggers>>

\* fetchPdf's catch: fetch rejected or !response.ok.  setError; toast; finally.
FetchReject(i) ==
    /\ variant = "direct"
    /\ i \in DOMAIN requests
    /\ requests[i].kind = "load"
    /\ requests[i].status = "inflight"
    /\ \E msg \in FetchErrors :
          /\ error' = msg
          /\ docState' = DocAfter(pdfData, msg, FALSE)
    /\ requests' = [requests EXCEPT ![i].status = "failed"]
    /\ isLoading' = FALSE
    /\ toasts' = <<"Error Fetching PDF">>
    /\ UNCHANGED <<variant, url, zoomLevel, isFullscreen, numPages, pageNumber, pdfData,
                   fullscreenElement, triggers>>

\* ---- renderer callbacks --------------------------------------------------
OnDocumentLoadSuccess(n) ==
    /\ docState = "loading"
    /\ numPages' = n
    /\ isLoading' = FALSE
    /\ docState' = "loaded"
    /\ toasts' = <<"PDF Loaded">>
    /\ UNCHANGED <<variant, url, zoomLevel, isFullscreen, pageNumber, pdfData, error,
                   fullscreenElement, requests, triggers>>

OnDocumentLoadError ==
    /\ docState = "loading"
    /\ isLoading' = FALSE
    /\ error' = LoadErrorMessage
    /\ docState' = IF Mounted(pdfData, LoadErrorMessage) THEN "failed" ELSE "unmounted"
    /\ toasts' = <<"Error Loading PDF">>
    /\ UNCHANGED <<variant, url, zoomLevel, isFullscreen, numPages, pageNumber, pdfData,
                   fullscreenElement, requests, triggers>>

\* ---- download -------------------------------------------------------------
\* direct: synchronous, from pdfData.  proxy: starts fetchPDFThroughProxy(url).
HandleDownload ==
    /\ IF variant = "direct"
       THEN /\ toasts' = IF pdfData # "null" THEN <<"Download started">> ELSE <<>>
            /\ UNCHANGED <<requests, triggers>>
       ELSE /\ triggers < MaxTriggers
            /\ triggers' = triggers + 1
            /\ requests' = Append(requests,
                                  [kind |-> "download", url |-> url, status |-> "inflight"])
            /\ toasts' = <<>>
    /\ UNCHANGED <<variant, url, isLoading, zoomLevel, isFullscreen, numPages, pageNumber,
                   pdfData, error, fullscreenElement, docState>>

\* proxy handleDownload after its await: the file is offered, one toast.
DownloadResolve(i) ==
    /\ variant = "proxy"
    /\ i \in DOMAIN requests
    /\ requests[i].kind = "download"
    /\ requests[i].status = "inflight"
    /\ requests' = [requests EXCEPT ![i].status = "ok"]
    /\ toasts' = <<"Download started">>
    /\ UNCHANGED <<variant, url, isLoading, zoomLevel, isFullscreen, numPages, pageNumber,
                   pdfData, error, fullscreenElement, triggers, docState>>

\* Mutant of DownloadReject: the catch also sets the error message.
DownloadRejectSetsError(i) ==
    /\ variant = "proxy"
    /\ i \in DOMAIN requests
    /\ requests[i].kind = "download"
    /\ requests[i].status = "inflight"
    /\ requests' = [requests EXCEPT ![i].status = "failed"]
    /\ toasts' = <<"Download Failed">>
    /\ error' = "Failed to fetch"
    /\ UNCHANGED <<variant, url, isLoading, zoomLevel, isFullscreen, numPages, pageNumber,
                   pdfData, fullscreenElement, triggers, docState>>

\* proxy handleDownload's catch: one toast, nothing else.
DownloadReject(i) ==
    /\ variant = "proxy"
    /\ i \in DOMAIN requests
    /\ requests[i].kind = "download"
    /\ requests[i].status = "inflight"
    /\ requests' = [requests EXCEPT ![i].status = "failed"]
    /\ toasts' = <<"Download Failed">>
    /\ UNCHANGED <<variant, url, isLoading, zoomLevel, isFullscreen, numPages, pageNumber,
                   pdfData, error, fullscreenElement, triggers, docState>>

\* ---- zoom -----------------------------------------------------------------
\* Mutant of NewZoom: a step of 10.
NewZoomStepTen(prev, direction) == IF direction = "in" THEN prev + 10 ELSE prev - 10

NewZoom(prev, direction) == IF direction = "in" THEN prev + ZoomStep ELSE prev - ZoomStep

\* Mutant of ClampZoom: the lower clamp is missing.
ClampZoomNoFloor(newZoom) == Min(newZoom, ZoomMax)

ClampZoom(newZoom) == Min(Max(newZoom, ZoomMin), ZoomMax)

HandleZoom(direction) ==
    /\ zoomLevel' = ClampZoom(NewZoom(zoomLevel, direction))
    /\ toasts' = <<IF direction = "in" THEN "Zoom in" ELSE "Zoom out">>
    /\ UNCHANGED <<variant, url, isLoading, isFullscreen, numPages, pageNumber, pdfData,
                   error, fullscreenElement, requests, triggers, docState>>

\* ---- paging ---------------------------------------------------------------
\* The buttons that call changePage: disabled={pageNumber <= 1} and
\* disabled={pageNumber >= (numPages || 1)}.
PageButtonEnabled(offset) ==
    IF offset < 0
    THEN ~(pageNumber <= 1)
    ELSE ~(pageNumber >= (IF numPages # NoPages THEN numPages ELSE 1))

ClampPage(newPage) ==
    IF numPages # NoPages THEN Min(Max(1, newPage), numPages) ELSE 1

ChangePage(offset) ==
    /\ PageButtonEnabled(offset)
    /\ pageNumber' = ClampPage(pageNumber + offset)
    /\ toasts' = <<>>
    /\ UNCHANGED <<variant, url, isLoading, zoomLevel, isFullscreen, numPages, pdfData,
                   error, fullscreenElement, requests, triggers, docState>>

\* ---- fullscreen -----------------------------------------------------------
ToggleFullscreen ==
    /\ IF ~fullscreenElement
       THEN fullscreenElement' = TRUE /\ isFullscreen' = TRUE
       ELSE fullscreenElement' = FALSE /\ isFullscreen' = FALSE
    /\ toasts' = <<>>
    /\ UNCHANGED <<variant, url, isLoading, zoomLevel, numPages, pageNumber, pdfData,
                   error, requests, triggers, docState>>

\* The browser leaves fullscreen by itself (Escape).  The component registers
\* no fullscreenchange listener, so no handler runs.
BrowserExitFullscreen ==
    /\ fullscreenElement
    /\ fullscreenElement' = FALSE
    /\ UNCHANGED <<variant, url, isLoading, zoomLevel, isFullscreen, numPages, pageNumber,
                   pdfData, error, requests, triggers, docState, toasts>>

\* ---- specification --------------------------------------------------------
Next ==
    \/ \E u \in Urls : UrlChange(u)
    \/ \E i \in 1..MaxTriggers : FetchResolve(i)
    \/ \E i \in 1..MaxTriggers : FetchReject(i)
    \/ \E n \in 1..MaxPages : OnDocumentLoadSuccess(n)
    \/ OnDocumentLoadError
    \/ HandleDownload
    \/ \E i \in 1..MaxTriggers : DownloadResolve(i)
    \/ \E i \in 1..MaxTriggers : DownloadReject(i)
    \/ \E d \in {"in", "out"} : HandleZoom(d)
    \/ \E o \in {-1, 1} : ChangePage(o)
    \/ ToggleFullscreen
    \/ BrowserExitFullscreen

Spec == Init /\ [][Next]_vars

TypeOK ==
    /\ variant \in Variants
    /\ url \in Urls
    /\ isLoading \in BOOLEAN
    /\ zoomLevel \in Int
    /\ isFullscreen \in BOOLEAN
    /\ numPages \in {NoPages} \cup (1..MaxPages)
    /\ pageNumber \in Int
    /\ pdfData \in {"null"} \cup Urls
    /\ error \in {"null", LoadErrorMessage} \cup FetchErrors
    /\ fullscreenElement \in BOOLEAN
    /\ Len(requests) <= MaxTriggers
    /\ triggers \in 1..MaxTriggers
    /\ docState \in {"unmounted", "loading", "loaded", "failed"}
    /\ Len(toasts) <= 1
\* ---- claims ---------------------------------------------------------------
NoneInFlight == \A i \in DOMAIN requests : requests[i].status # "inflight"

\* C1: whenever numPages is known, 1 <= pageNumber <= numPages; while it is
\* null the page number is 1.
C1_PageInRange ==
    /\ numPages # NoPages => (1 <= pageNumber /\ pageNumber <= numPages)
    /\ numPages = NoPages => pageNumber = 1

\* C2: the state onDocumentLoadSuccess leaves has error = null and
\* isLoading = false.  (toasts = <<"PDF Loaded">> marks that state: only
\* onDocumentLoadSuccess issues that toast.)
C2_LoadSuccessClearsError ==
    toasts = <<"PDF Loaded">> => (error = "null" /\ isLoading = FALSE)

\* C3: while the error message is non-null the <Document> is not mounted and
\* no page is displayed, in both variants.
C3_ErrorDisablesContent ==
    error # "null" => (docState = "unmounted" /\ ~PageDisplayed)

\* C4: the zoom level is in [50, 200] in every reachable state.
C4_ZoomInRange == 50 <= zoomLevel /\ zoomLevel <= 200

C4_Witness ==
    /\ zoomLevel = 50
    /\ toasts = <<"Zoom out">>
    /\ docState = "loaded"
    /\ \E i \in DOMAIN requests : requests[i].status = "ok"

\* What a failure being handled looks like in a step: a request of the
\* component goes from in flight to failed, or the renderer reports a load error.
LoadFailureHandled ==
    \/ \E i \in DOMAIN requests :
          /\ requests[i].kind = "load"
          /\ requests[i].status = "inflight"
          /\ requests'[i].status = "failed"
    \/ OnDocumentLoadError

DownloadFailureHandled ==
    \E i \in DOMAIN requests :
        /\ requests[i].kind = "download"
        /\ requests[i].status = "inflight"
        /\ requests'[i].status = "failed"

OneDestructiveToast == Len(toasts') = 1 /\ toasts'[1] \in DestructiveTitles

\* C5 as stated: every failure, the proxy variant's download failure included,
\* issues exactly one toast and leaves the error message non-null.
C5_EveryFailureToastAndPanel ==
    [][(LoadFailureHandled \/ DownloadFailureHandled)
          => (OneDestructiveToast /\ error' # "null")]_vars

\* C5 as amended: a failed fetch of the document and a renderer load error
\* issue exactly one destructive toast and leave the error message non-null;
\* a failed download of the proxy variant issues exactly one toast
\* ("Download Failed") and leaves the error message as it was.
C5_FailuresSurfaced ==
    [][/\ LoadFailureHandled => (OneDestructiveToast /\ error' # "null")
       /\ DownloadFailureHandled
             => (toasts' = <<"Download Failed">> /\ error' = error)]_vars

C5_Witness ==
    /\ variant = "proxy"
    /\ toasts = <<"Download Failed">>
    /\ error = "null"
    /\ \E i \in DOMAIN requests :
          requests[i].kind = "download" /\ requests[i].status = "failed"

\* C6: the requests ever started never outnumber the triggering events
\* (mount, url changes, proxy download clicks); a step starts at most one
\* request and only when it is a triggering event (so a failed request is
\* never retried); a request once started stays in the list unchanged until
\* its own response settles it, and a settled one never changes again.
NoRetryNoCancel ==
    /\ Len(requests') >= Len(requests)
    /\ Len(requests') > Len(requests)
          => (Len(requests') = Len(requests) + 1 /\ triggers' = triggers + 1)
    /\ \A i \in DOMAIN requests :
          /\ requests'[i].kind = requests[i].kind
          /\ requests'[i].url = requests[i].url
          /\ requests'[i].status \in {"inflight", "ok", "failed"}
          /\ requests[i].status # "inflight" => requests'[i].status = requests[i].status

C6_OneRequestPerTrigger ==
    [](Len(requests) <= triggers) /\ [][NoRetryNoCancel]_vars

C6_Witness ==
    /\ Len(requests) >= 2
    /\ Len(requests) = triggers
    /\ requests[1].status = "failed"
    /\ requests[2].status = "inflight"

\* C7: handleZoom("in") yields min(z + 25, 200), handleZoom("out") yields
\* max(z - 25, 50), and the zoom level is always a multiple of 25.
ZoomStepOK ==
    /\ HandleZoom("in") => zoomLevel' = Min(zoomLevel + 25, 200)
    /\ HandleZoom("out") => zoomLevel' = Max(zoomLevel - 25, 50)

C7_ZoomStep == [][ZoomStepOK]_vars /\ [](zoomLevel % 25 = 0)

C7_Witness == zoomLevel = 175 /\ toasts = <<"Zoom out">>

\* C8 as stated (direct variant): once every fetch has settled, pdfData and
\* the error message are those of the fetch for the latest url.
C8_LatestFetchWins ==
    (variant = "direct" /\ NoneInFlight) =>
        LET last == requests[Len(requests)]
        IN  /\ last.status = "ok" => (pdfData = last.url /\ error \notin FetchErrors)
            /\ last.status = "failed" => error \in FetchErrors

\* C8 as amended (direct variant): responses are applied in arrival order
\* with no check against the current url.  Every successful response, a late
\* one for an old url included, stores its own bytes in pdfData and leaves the
\* error message alone; every failed one stores its message and leaves pdfData
\* alone.
C8_ResponsesAppliedInArrivalOrder ==
    [][\A i \in DOMAIN requests :
          (variant = "direct" /\ requests[i].status = "inflight") =>
              /\ requests'[i].status = "ok"
                    => (pdfData' = requests[i].url /\ error' = error)
              /\ requests'[i].status = "failed"
                    => (error' \in FetchErrors /\ pdfData' = pdfData)]_vars

C8_Witness ==
    /\ variant = "direct"
    /\ NoneInFlight
    /\ Len(requests) >= 2
    /\ requests[Len(requests)].status = "ok"
    /\ requests[Len(requests)].url = url
    /\ pdfData # "null"
    /\ pdfData # url

\* C9: isFullscreen is true exactly when the browser is in fullscreen.
C9_FullscreenFlagMatchesBrowser == isFullscreen = fullscreenElement

\* C10: a download step (the click, and in the proxy variant the response or
\* the failure) leaves zoomLevel, pageNumber, numPages, isLoading, error,
\* isFullscreen and pdfData unchanged; in the direct variant with pdfData null
\* the click issues no toast and changes nothing, and a "Download started"
\* toast there implies that pdfData is present.
viewState == <<zoomLevel, pageNumber, numPages, isLoading, error, isFullscreen, pdfData>>

DownloadStep ==
    \/ HandleDownload
    \/ \E i \in DOMAIN requests : DownloadResolve(i) \/ DownloadReject(i)

C10_DownloadLeavesViewState ==
    /\ [][DownloadStep => UNCHANGED viewState]_vars
    /\ [][(variant = "direct" /\ pdfData = "null" /\ HandleDownload)
             => (toasts' = <<>> /\ UNCHANGED <<requests, triggers, docState, url>>)]_vars
    /\ []((variant = "direct" /\ toasts = <<"Download started">>) => pdfData # "null")

C10_Witness ==
    /\ variant = "proxy"
    /\ toasts = <<"Download started">>
    /\ \E i \in DOMAIN requests :
          requests[i].kind = "download" /\ requests[i].status = "ok"
    /\ pageNumber = 2
    /\ zoomLevel = 125
    /\ isFullscreen
====
